---- MODULE Spec2Model ----
(***************************************************************************)
(* Model of the queue-triggered PDF ingestion worker                       *)
(* (app/lambda_function.py and the client wrappers beside it).             *)
(*                                                                         *)
(* Python strings are sequences of one-character strings, so that slicing, *)
(* splitting, suffix tests and date parsing are computed as the code       *)
(* computes them.                                                          *)
(***************************************************************************)
EXTENDS Integers, Sequences, FiniteSets, TLC

\* ------------------------------------------------------------------------
\* Bounds of the model
\* ------------------------------------------------------------------------

\* number of process_record invocations (deliveries) in one behaviour
MaxDeliveries == 2

\* number of calls of the client wrappers in one behaviour
MaxWrapperCalls == 1

\* number of tokens appended to a base URL in the URL family of SpecUrl
MaxTail == 3

\* ------------------------------------------------------------------------
\* Strings
\* ------------------------------------------------------------------------

None == "None"

Range(s) == {s[i] : i \in 1..Len(s)}

\* s[i:] with a 0-based Python index 0 <= i
Drop(s, i) == SubSeq(s, i + 1, Len(s))

\* s[:i] with a 0-based Python index 0 <= i
Take(s, i) == SubSeq(s, 1, IF i < Len(s) THEN i ELSE Len(s))

\* s.endswith(t)
EndsWith(s, t) == Len(s) >= Len(t) /\ SubSeq(s, Len(s) - Len(t) + 1, Len(s)) = t

\* s[:-n] for n > 0
DropLast(s, n) == IF Len(s) > n THEN SubSeq(s, 1, Len(s) - n) ELSE <<>>

\* s.find(c, from): 0-based index of the first c at or after 0-based from, -1 if none
Find(s, c, from) ==
    LET hits == {i \in (from + 1)..Len(s) : s[i] = c}
    IN  IF hits = {} THEN -1 ELSE (CHOOSE i \in hits : \A j \in hits : i <= j) - 1

\* s.rfind(c): 0-based index of the last c, -1 if none
RFind(s, c) ==
    LET hits == {i \in 1..Len(s) : s[i] = c}
    IN  IF hits = {} THEN -1 ELSE (CHOOSE i \in hits : \A j \in hits : i >= j) - 1

\* s.split(c): the sequence of the pieces of s between occurrences of c
RECURSIVE Split(_, _)
Split(s, c) ==
    LET i == Find(s, c, 0)
    IN  IF i < 0 THEN <<s>> ELSE <<Take(s, i)>> \o Split(Drop(s, i + 1), c)

\* s.split(c, 1)[0]
Before(s, c) == LET i == Find(s, c, 0) IN IF i < 0 THEN s ELSE Take(s, i)

Letters ==
    {"a", "b", "c", "d", "e", "f", "g", "h", "i", "j", "k", "l", "m", "n", "o", "p", "q",
     "r", "s", "t", "u", "v", "w", "x", "y", "z",
     "A", "B", "C", "D", "E", "F", "G", "H", "I", "J", "K", "L", "M", "N", "O", "P", "Q",
     "R", "S", "T", "U", "V", "W", "X", "Y", "Z"}

Digits == {"0", "1", "2", "3", "4", "5", "6", "7", "8", "9"}

DigitVal(c) ==
    CASE c = "0" -> 0 [] c = "1" -> 1 [] c = "2" -> 2 [] c = "3" -> 3 [] c = "4" -> 4
      [] c = "5" -> 5 [] c = "6" -> 6 [] c = "7" -> 7 [] c = "8" -> 8 [] c = "9" -> 9

DigitChar(n) ==
    CASE n = 0 -> "0" [] n = 1 -> "1" [] n = 2 -> "2" [] n = 3 -> "3" [] n = 4 -> "4"
      [] n = 5 -> "5" [] n = 6 -> "6" [] n = 7 -> "7" [] n = 8 -> "8" [] n = 9 -> "9"

\* c.lower() on the letters month names are made of
Lower(c) ==
    CASE c = "A" -> "a" [] c = "B" -> "b" [] c = "C" -> "c" [] c = "D" -> "d"
      [] c = "E" -> "e" [] c = "F" -> "f" [] c = "G" -> "g" [] c = "J" -> "j"
      [] c = "L" -> "l" [] c = "M" -> "m" [] c = "N" -> "n" [] c = "O" -> "o"
      [] c = "P" -> "p" [] c = "R" -> "r" [] c = "S" -> "s" [] c = "T" -> "t"
      [] c = "U" -> "u" [] c = "V" -> "v" [] c = "Y" -> "y"
      [] OTHER -> c

\* ------------------------------------------------------------------------
\* urllib.parse.urlparse(url).path and os.path.basename
\* ------------------------------------------------------------------------

SchemeChars == Letters \cup Digits \cup {"+", "-", "."}

\* the schemes whose last path segment may carry ";parameters" (uses_params)
UsesParams ==
    {<<>>, <<"f", "t", "p">>, <<"h", "t", "t", "p">>, <<"h", "t", "t", "p", "s">>}

\* the position (0-based) of the ':' ending a scheme, -1 if the url has no scheme
SchemeEnd(url) ==
    LET i == Find(url, ":", 0)
    IN  IF i > 0 /\ url[1] \in Letters /\ \A k \in 1..i : url[k] \in SchemeChars
        THEN i ELSE -1

\* urlsplit(url).scheme, lower case letters assumed
UrlScheme(url) == IF SchemeEnd(url) < 0 THEN <<>> ELSE Take(url, SchemeEnd(url))

\* the url after its scheme and its //netloc
AfterNetloc(url) ==
    LET rest == IF SchemeEnd(url) < 0 THEN url ELSE Drop(url, SchemeEnd(url) + 1)
        ends == {i \in {Find(rest, "/", 2), Find(rest, "?", 2), Find(rest, "#", 2)} : i >= 0}
        delim == IF ends = {} THEN Len(rest) ELSE CHOOSE i \in ends : \A j \in ends : i <= j
    IN  IF Take(rest, 2) = <<"/", "/">> THEN Drop(rest, delim) ELSE rest

\* urlsplit(url).path: without #fragment and ?query
SplitPath(url) == Before(Before(AfterNetloc(url), "#"), "?")

\* _splitparams(path)[0]: without the ;parameters of the last segment
SplitParams(path) ==
    LET slash == RFind(path, "/")
        i == IF slash >= 0 THEN Find(path, ";", slash) ELSE Find(path, ";", 0)
    IN  IF i < 0 THEN path ELSE Take(path, i)

\* urlparse(url).path
UrlPath(url) ==
    IF UrlScheme(url) \in UsesParams /\ ";" \in Range(SplitPath(url))
    THEN SplitParams(SplitPath(url))
    ELSE SplitPath(url)

\* os.path.basename(p)
Basename(p) == Drop(p, RFind(p, "/") + 1)

DotPdf == <<".", "p", "d", "f">>

KeyPrefix == <<"j", "u", "d", "g", "e", "m", "e", "n", "t", "s", "/">>

\* mutant: the suffix is appended whether or not it is there
FilenameAlwaysSuffixed(url) == Basename(UrlPath(url)) \o DotPdf

\* mutant: the filename is cut from the whole url, query string included
FilenameOfWholeUrl(url) ==
    LET f == Basename(url) IN IF EndsWith(f, DotPdf) THEN f ELSE f \o DotPdf

\* lines 95-97: the filename the object is stored under
Filename(url) ==
    LET f == Basename(UrlPath(url)) IN IF EndsWith(f, DotPdf) THEN f ELSE f \o DotPdf

\* line 99: Key=f'judgements/{filename}'
ObjectKey(filename) == KeyPrefix \o filename

\* ------------------------------------------------------------------------
\* format_date and get_unique_id_from_url
\* ------------------------------------------------------------------------

MonthAbbr ==
    << <<"j", "a", "n">>, <<"f", "e", "b">>, <<"m", "a", "r">>, <<"a", "p", "r">>,
       <<"m", "a", "y">>, <<"j", "u", "n">>, <<"j", "u", "l">>, <<"a", "u", "g">>,
       <<"s", "e", "p">>, <<"o", "c", "t">>, <<"n", "o", "v">>, <<"d", "e", "c">> >>

IsLeap(y) == y % 4 = 0 /\ (y % 100 # 0 \/ y % 400 = 0)

DaysInMonth(y, m) ==
    IF m = 2 THEN (IF IsLeap(y) THEN 29 ELSE 28)
    ELSE IF m \in {4, 6, 9, 11} THEN 30 ELSE 31

\* the length of the day field "%d" matches at the start of s, 0 if none
DayLen(s) ==
    IF Len(s) >= 2 /\ s[2] = "-"
    THEN (IF s[1] \in Digits \ {"0"} THEN 1 ELSE 0)
    ELSE IF Len(s) >= 2
              /\ \/ s[1] = "3" /\ s[2] \in {"0", "1"}
                 \/ s[1] \in {"1", "2"} /\ s[2] \in Digits
                 \/ s[1] \in {"0", " "} /\ s[2] \in Digits \ {"0"}
         THEN 2 ELSE 0

\* the fields strptime(s, "%d-%b-%Y") reads; ok is FALSE when s does not match
ParseFields(s) ==
    LET n == DayLen(s)
        mon == [i \in 1..3 |-> Lower(s[n + 1 + i])]
    IN  IF /\ n > 0
           /\ Len(s) = n + 9
           /\ s[n + 1] = "-"
           /\ s[n + 5] = "-"
           /\ \E m \in 1..12 : MonthAbbr[m] = mon
           /\ \A k \in (n + 6)..(n + 9) : s[k] \in Digits
        THEN [ok |-> TRUE,
              day |-> IF n = 1 THEN DigitVal(s[1])
                      ELSE (IF s[1] = " " THEN 0 ELSE 10 * DigitVal(s[1])) + DigitVal(s[2]),
              month |-> CHOOSE m \in 1..12 : MonthAbbr[m] = mon,
              year |-> 1000 * DigitVal(s[n + 6]) + 100 * DigitVal(s[n + 7])
                       + 10 * DigitVal(s[n + 8]) + DigitVal(s[n + 9])]
        ELSE [ok |-> FALSE]

\* datetime.strptime(s, "%d-%b-%Y"): ok is FALSE for a ValueError
Strptime(s) ==
    LET f == ParseFields(s)
    IN  IF f.ok /\ (f.year < 1 \/ f.day > DaysInMonth(f.year, f.month))
        THEN [ok |-> FALSE] ELSE f

TwoDigits(n) == <<DigitChar(n \div 10), DigitChar(n % 10)>>

\* the year in decimal, not padded
RECURSIVE Decimal(_)
Decimal(n) == IF n < 10 THEN <<DigitChar(n)>> ELSE Decimal(n \div 10) \o <<DigitChar(n % 10)>>

\* the platform of the interpreter: whether "%Y" of strftime pads the year to
\* four digits. The C library of Linux does not ('01-Jan-0999' gives
\* '999-01-01'), other platforms and later interpreters do.
VARIABLE libcPadsYear

\* "%Y" of strftime
YearField(y) ==
    IF libcPadsYear THEN TwoDigits(y \div 100) \o TwoDigits(y % 100) ELSE Decimal(y)

\* date_obj.strftime("%Y-%m-%d")
Strftime(d) == YearField(d.year) \o <<"-">> \o TwoDigits(d.month) \o <<"-">> \o TwoDigits(d.day)

\* mutant: a string that is no date is passed through unchanged
format_date_lenient(date_str) ==
    LET d == Strptime(date_str)
    IN  IF d.ok THEN [ok |-> TRUE, str |-> Strftime(d)] ELSE [ok |-> TRUE, str |-> date_str]

\* lines 182-193: ok is FALSE for the ValueError of strptime
format_date(date_str) ==
    LET d == Strptime(date_str)
    IN  IF d.ok THEN [ok |-> TRUE, str |-> Strftime(d)] ELSE [ok |-> FALSE]

\* lines 162-179: the record id, or the exception the derivation raises
get_unique_id_from_url(url) ==
    LET filename == Split(url, "/")[Len(Split(url, "/"))]
        split == Split(filename, "_")
    IN  IF Len(split) < 2 THEN [ok |-> FALSE, raised |-> "IndexError"]
        ELSE LET date == format_date(DropLast(split[Len(split)], 4))
             IN  IF date.ok
                 THEN [ok |-> TRUE, id |-> split[1] \o split[2] \o <<"_">> \o date.str]
                 ELSE [ok |-> FALSE, raised |-> "ValueError"]

\* ------------------------------------------------------------------------
\* Inputs: links, message bodies, fetched contents
\* ------------------------------------------------------------------------

\* https://x/CR_100_07-Jan-2023.pdf: the well-formed link of the end-to-end example
UrlGood ==
    <<"h", "t", "t", "p", "s", ":", "/", "/", "x", "/", "C", "R", "_", "1", "0", "0",
      "_", "0", "7", "-", "J", "a", "n", "-", "2", "0", "2", "3", ".", "p", "d", "f">>

\* https://x/CR1_00_07-Jan-2023.pdf: another document whose first two segments concatenate to the same prefix
UrlTwin ==
    <<"h", "t", "t", "p", "s", ":", "/", "/", "x", "/", "C", "R", "1", "_", "0", "0",
      "_", "0", "7", "-", "J", "a", "n", "-", "2", "0", "2", "3", ".", "p", "d", "f">>

\* https://x/CR_100_07-Jan-2023.pdf?v=1: the same document fetched with a query string
UrlQuery ==
    <<"h", "t", "t", "p", "s", ":", "/", "/", "x", "/", "C", "R", "_", "1", "0", "0",
      "_", "0", "7", "-", "J", "a", "n", "-", "2", "0", "2", "3", ".", "p", "d", "f",
      "?", "v", "=", "1">>

\* https://x/CR_100_07-Jan-2023: a link whose last segment lacks the .pdf suffix
UrlBare ==
    <<"h", "t", "t", "p", "s", ":", "/", "/", "x", "/", "C", "R", "_", "1", "0", "0",
      "_", "0", "7", "-", "J", "a", "n", "-", "2", "0", "2", "3">>

\* https://x/onlyonepart.pdf: a filename without underscores
UrlOnePart ==
    <<"h", "t", "t", "p", "s", ":", "/", "/", "x", "/", "o", "n", "l", "y", "o", "n",
      "e", "p", "a", "r", "t", ".", "p", "d", "f">>

\* x/A_1_7-feb-2024.pdf: a link without scheme, which requests refuses to fetch
UrlNoScheme ==
    <<"x", "/", "A", "_", "1", "_", "7", "-", "f", "e", "b", "-", "2", "0", "2", "4",
      ".", "p", "d", "f">>

\* a record whose body decodes to a JSON object holding the link
Linked(url) == [json |-> TRUE, haslink |-> TRUE, link |-> url]

\* a body that decodes to a JSON object without judgementPdfLink
MsgAbsent == [json |-> TRUE, haslink |-> FALSE, link |-> <<>>]

\* a body whose judgementPdfLink is the empty string
MsgEmpty == Linked(<<>>)

\* a body that is not JSON text
MsgNotJson == [json |-> FALSE, haslink |-> FALSE, link |-> <<>>]

\* the messages the queue delivers in Spec
Messages == {Linked(UrlGood), Linked(UrlOnePart), MsgAbsent, MsgNotJson}

\* further messages, each delivered alone in SpecUrl
EdgeMessages == {Linked(UrlTwin), Linked(UrlQuery), Linked(UrlBare), Linked(UrlNoScheme), MsgEmpty}

\* the links of SpecUrl: a base followed by up to MaxTail tokens
UrlBase == <<"h", "t", "t", "p", "s", ":", "/", "/", "x">>

Tokens == {<<"/">>, <<"a">>, DotPdf, <<"?">>, <<"#">>, <<";">>, <<"_">>}

RECURSIVE Tails(_)
Tails(n) ==
    IF n = 0 THEN {<<>>}
    ELSE Tails(n - 1) \cup {t \o k : t \in Tails(n - 1), k \in Tokens}

UrlFamily == {UrlBase \o t : t \in Tails(MaxTail)}

\* the bytes a GET may return
Contents == {"pdf-v1", "pdf-v2"}

\* ------------------------------------------------------------------------
\* Program constants
\* ------------------------------------------------------------------------

INPUT_BUCKET_NAME == "judgement-pdfs"

OUTPUT_BUCKET_NAME == "judgement-jsons"

TableName == "judgements-table"

PendingOcr == "pending ocr"

\* ------------------------------------------------------------------------
\* State
\* ------------------------------------------------------------------------

\* the concurrent invocations of process_record the hosting runtime runs
Procs == {"w1", "w2"}

VARIABLES
    inbox,      \* the messages the queue may deliver
    delivered,  \* number of deliveries started
    pc,         \* per invocation: the stage reached
    msg,        \* per invocation: the record being processed
    pdf_data,   \* per invocation: response.content
    filename,   \* per invocation: the local filename
    job_id,     \* per invocation: the local job_id
    err,        \* per invocation: the exception that left process_record, or None
    calls,      \* per invocation: the external calls of this pass, in order
    blob,       \* the blob store: <<bucket, key>> -> object
    blobSrc,    \* history: the links whose deliveries wrote each object
    table,      \* the record store: <<table, uniqueId>> -> item
    tableSrc,   \* history: the links whose deliveries wrote each item
    recordings, \* history: the passes that ended Recorded, in order
    jobs,       \* the jobs the processing service accepted, in order
    hpc,        \* lambda_handler: "Idle", "Returned" or "Raised"
    hevent,     \* lambda_handler: the Records of its event
    hcalls,     \* lambda_handler: the external calls made on its behalf
    wcalls      \* the calls of the client wrappers, with what each gave back

procVars == <<pc, msg, pdf_data, filename, job_id, err, calls>>

storeVars == <<blob, blobSrc, table, tableSrc, recordings, jobs>>

handlerVars == <<hpc, hevent, hcalls>>

vars == <<libcPadsYear, inbox, delivered, procVars, storeVars, handlerVars, wcalls>>

Terminal == {"Recorded", "Skipped", "Failed"}

\* the link of the record an invocation processes
Url(p) == msg[p].link

\* an item of the record store before any delivery, written by another system
LegacyItem ==
    [uniqueId |-> get_unique_id_from_url(UrlGood).id, status |-> "archived",
     jobId |-> "0", court |-> "SC"]

InitProcs ==
    /\ pc = [p \in Procs |-> "Idle"]
    /\ msg = [p \in Procs |-> MsgAbsent]
    /\ pdf_data = [p \in Procs |-> None]
    /\ filename = [p \in Procs |-> <<>>]
    /\ job_id = [p \in Procs |-> None]
    /\ err = [p \in Procs |-> None]
    /\ calls = [p \in Procs |-> <<>>]

InitStores ==
    /\ blob = <<>>
    /\ blobSrc = <<>>
    /\ table \in {<<>>, [k \in {<<TableName, LegacyItem.uniqueId>>} |-> LegacyItem]}
    /\ tableSrc = [k \in DOMAIN table |-> {}]
    /\ recordings = <<>>
    /\ jobs = <<>>

InitRest ==
    /\ hpc = "Idle"
    /\ hevent = <<>>
    /\ hcalls = <<>>
    /\ wcalls = <<>>

\* no link of Messages, EdgeMessages or UrlFamily has a year below 1000, so the
\* platform makes no difference to them and is fixed; InitId draws it
Init ==
    /\ libcPadsYear = FALSE
    /\ inbox = Messages
    /\ delivered = 0
    /\ InitProcs
    /\ InitStores
    /\ InitRest

\* ------------------------------------------------------------------------
\* The external collaborators
\* ------------------------------------------------------------------------

\* requests.get / requests.post refuse a url that is not http(s)
CanFetch(url) == UrlScheme(url) \in {<<"h", "t", "t", "p">>, <<"h", "t", "t", "p", "s">>}

\* what requests.get(url, timeout=5) followed by raise_for_status() may give
GetResponses(url) ==
    IF CanFetch(url)
    THEN {[ok |-> TRUE, content |-> c] : c \in Contents}
         \cup {[ok |-> FALSE, error |-> "RequestException"]}
    ELSE {[ok |-> FALSE, error |-> "MissingSchema"]}

\* s3.put_object: the object under <<bucket, key>> is created or replaced
PutObject(store, bucket, key, body, ctype) ==
    [k \in DOMAIN store \cup {<<bucket, key>>} |->
        IF k = <<bucket, key>> THEN [Body |-> body, ContentType |-> ctype] ELSE store[k]]

\* history of PutObject
NoteSrc(src, k, url) ==
    [x \in DOMAIN src \cup {k} |->
        IF x = k THEN (IF k \in DOMAIN src THEN src[k] ELSE {}) \cup {url} ELSE src[x]]

\* f"s3://{bucket}/judgements/{filename}"
S3Path(bucket, name) == <<"s3://", bucket, "/">> \o KeyPrefix \o name

\* the identifier the processing service gives its next job
NextJobId == ToString(Len(jobs) + 1)

\* mutant: the item is replaced, as put_item does
UpdateItemReplacing(store, tbl, id, status, job) ==
    [k \in DOMAIN store \cup {<<tbl, id>>} |->
        IF k = <<tbl, id>> THEN [uniqueId |-> id, status |-> status, jobId |-> job]
        ELSE store[k]]

\* lines 136-150: table.update_item(Key={'uniqueId': id}, SET status, jobId):
\* the item is created if absent, and only the two attributes are set
UpdateItem(store, tbl, id, status, job) ==
    LET k0 == <<tbl, id>>
        old == IF k0 \in DOMAIN store THEN store[k0] ELSE [uniqueId |-> id]
        new == [f \in DOMAIN old \cup {"status", "jobId"} |->
                  IF f = "status" THEN status ELSE IF f = "jobId" THEN job ELSE old[f]]
    IN  [k \in DOMAIN store \cup {k0} |-> IF k = k0 THEN new ELSE store[k]]

\* ------------------------------------------------------------------------
\* process_record (lines 69-159), one action per external call
\* ------------------------------------------------------------------------

\* `raise e`: the exception leaves process_record
Raise(p, e) ==
    /\ pc' = [pc EXCEPT ![p] = "Failed"]
    /\ err' = [err EXCEPT ![p] = e]

\* the pass goes on to its next stage, or returns
Advance(p, stage) ==
    /\ pc' = [pc EXCEPT ![p] = stage]
    /\ UNCHANGED err

\* history: the external call just made and whether it succeeded
Called(p, op, ok, arg) ==
    calls' = [calls EXCEPT ![p] = Append(@, [op |-> op, ok |-> ok, arg |-> arg])]

\* mutant: a body that is no JSON is logged and skipped like a missing link
StartSkippingBadJson(p) ==
    /\ pc[p] \in Terminal \cup {"Idle"}
    /\ delivered < MaxDeliveries
    /\ delivered' = delivered + 1
    /\ \E m \in inbox :
        /\ msg' = [msg EXCEPT ![p] = m]
        /\ IF ~m.json \/ ~m.haslink \/ m.link = <<>> THEN Advance(p, "Skipped")
           ELSE Advance(p, "Received")
    /\ pdf_data' = [pdf_data EXCEPT ![p] = None]
    /\ filename' = [filename EXCEPT ![p] = <<>>]
    /\ job_id' = [job_id EXCEPT ![p] = None]
    /\ calls' = [calls EXCEPT ![p] = <<>>]
    /\ UNCHANGED <<libcPadsYear, inbox, storeVars, handlerVars, wcalls>>

\* lines 83-87: a delivery: the body is decoded and the link looked up
Start(p) ==
    /\ pc[p] \in Terminal \cup {"Idle"}
    /\ delivered < MaxDeliveries
    /\ delivered' = delivered + 1
    /\ \E m \in inbox :
        /\ msg' = [msg EXCEPT ![p] = m]
        /\ IF ~m.json THEN Raise(p, "JSONDecodeError")
           ELSE IF ~m.haslink \/ m.link = <<>> THEN Advance(p, "Skipped")
           ELSE Advance(p, "Received")
    /\ pdf_data' = [pdf_data EXCEPT ![p] = None]
    /\ filename' = [filename EXCEPT ![p] = <<>>]
    /\ job_id' = [job_id EXCEPT ![p] = None]
    /\ calls' = [calls EXCEPT ![p] = <<>>]
    /\ UNCHANGED <<libcPadsYear, inbox, storeVars, handlerVars, wcalls>>

\* mutant: the failure is logged and the pass goes on without data
FetchFailedSwallowed(p, e) ==
    /\ Called(p, "fetch", FALSE, Url(p))
    /\ Advance(p, "Fetched")
    /\ UNCHANGED pdf_data

\* lines 103-105: the GET failed or answered non-2xx
FetchFailed(p, e) ==
    /\ Called(p, "fetch", FALSE, Url(p))
    /\ Raise(p, e)
    /\ UNCHANGED pdf_data

\* mutant: the job is submitted before the object is stored
FetchedSkippingArchive(p, data) ==
    /\ Called(p, "fetch", TRUE, Url(p))
    /\ pdf_data' = [pdf_data EXCEPT ![p] = data]
    /\ Advance(p, "Archived")

\* mutant: the pass waits for a completion that nothing delivers
FetchedAwaiting(p, data) ==
    /\ Called(p, "fetch", TRUE, Url(p))
    /\ pdf_data' = [pdf_data EXCEPT ![p] = data]
    /\ Advance(p, "Fetching")

\* lines 91-93: the GET answered 2xx
Fetched(p, data) ==
    /\ Called(p, "fetch", TRUE, Url(p))
    /\ pdf_data' = [pdf_data EXCEPT ![p] = data]
    /\ Advance(p, "Fetched")

\* lines 90-93, 103-105
Fetch(p) ==
    /\ pc[p] = "Received"
    /\ \E r \in GetResponses(Url(p)) :
        IF r.ok THEN Fetched(p, r.content) ELSE FetchFailed(p, r.error)
    /\ UNCHANGED <<libcPadsYear, inbox, delivered, msg, filename, job_id, storeVars, handlerVars, wcalls>>

\* mutant: an object already there is not overwritten, a numbered one is written
ArchiveKeyUnused(name) ==
    IF <<INPUT_BUCKET_NAME, ObjectKey(name)>> \in DOMAIN blob
    THEN ObjectKey(name) \o <<".", ToString(Cardinality(DOMAIN blob))>>
    ELSE ObjectKey(name)

\* line 99: the key of the object written for a filename
ArchiveKey(name) == ObjectKey(name)

\* lines 95-105: the filename is derived and the object written
Archive(p) ==
    /\ pc[p] = "Fetched"
    /\ LET name == Filename(Url(p))
           key == ArchiveKey(name)
       IN  /\ filename' = [filename EXCEPT ![p] = name]
           /\ \/ /\ blob' = PutObject(blob, INPUT_BUCKET_NAME, key, pdf_data[p],
                                      "application/pdf")
                 /\ blobSrc' = NoteSrc(blobSrc, <<INPUT_BUCKET_NAME, key>>, Url(p))
                 /\ Called(p, "put", TRUE, key)
                 /\ Advance(p, "Archived")
              \/ /\ UNCHANGED <<blob, blobSrc>>
                 /\ Called(p, "put", FALSE, key)
                 /\ Raise(p, "ClientError")
    /\ UNCHANGED <<libcPadsYear, inbox, delivered, msg, pdf_data, job_id, table, tableSrc, recordings, jobs,
                   handlerVars, wcalls>>

\* lines 110-118: the payload of the job request
Payload(p) ==
    [input_file_path |-> S3Path(INPUT_BUCKET_NAME, filename[p]),
     output_file_path |-> S3Path(OUTPUT_BUCKET_NAME, filename[p]),
     job_id |-> "1234"]

\* mutant: the failure handler deletes the object it stored
SubmitFailedRollingBack(p, e) ==
    /\ Called(p, "submit", FALSE, Payload(p))
    /\ Raise(p, e)
    /\ blob' = [k \in DOMAIN blob \ {<<INPUT_BUCKET_NAME, ObjectKey(filename[p])>>} |-> blob[k]]
    /\ UNCHANGED <<job_id, jobs, blobSrc>>

\* lines 127-129: the POST failed or answered non-2xx
SubmitFailed(p, e) ==
    /\ Called(p, "submit", FALSE, Payload(p))
    /\ Raise(p, e)
    /\ UNCHANGED <<job_id, jobs, blob, blobSrc>>

\* mutant: the record id is derived before the job is submitted
SubmittedDerivingFirst(p, id) ==
    IF get_unique_id_from_url(Url(p)).ok
    THEN /\ Called(p, "submit", TRUE, Payload(p))
         /\ jobs' = Append(jobs, [id |-> NextJobId, payload |-> Payload(p)])
         /\ job_id' = [job_id EXCEPT ![p] = id]
         /\ Advance(p, "JobSubmitted")
         /\ UNCHANGED <<blob, blobSrc>>
    ELSE /\ Raise(p, get_unique_id_from_url(Url(p)).raised)
         /\ UNCHANGED <<calls, jobs, job_id, blob, blobSrc>>

\* lines 119-125: the POST answered 2xx; id is what .json().get("job_id") gives
Submitted(p, id) ==
    /\ Called(p, "submit", TRUE, Payload(p))
    /\ jobs' = Append(jobs, [id |-> NextJobId, payload |-> Payload(p)])
    /\ job_id' = [job_id EXCEPT ![p] = id]
    /\ Advance(p, "JobSubmitted")
    /\ UNCHANGED <<blob, blobSrc>>

\* line 123 raising: the 2xx response is not JSON text
SubmittedNotJson(p) ==
    /\ Called(p, "submit", TRUE, Payload(p))
    /\ jobs' = Append(jobs, [id |-> NextJobId, payload |-> Payload(p)])
    /\ Raise(p, "JSONDecodeError")
    /\ UNCHANGED <<job_id, blob, blobSrc>>

\* lines 108-129
Submit(p) ==
    /\ pc[p] = "Archived"
    /\ \/ SubmitFailed(p, "RequestException")
       \/ \E id \in {NextJobId, None} : Submitted(p, id)
       \/ SubmittedNotJson(p)
    /\ UNCHANGED <<libcPadsYear, inbox, delivered, msg, pdf_data, filename, table, tableSrc, recordings,
                   handlerVars, wcalls>>

\* mutant: a failed update_item is logged and the pass ends as if recorded
RecordFailedSwallowed(p, id) ==
    /\ Called(p, "upsert", FALSE, id)
    /\ Advance(p, "Recorded")
    /\ UNCHANGED <<storeVars>>

\* lines 157-159: update_item failed
RecordFailed(p, id) ==
    /\ Called(p, "upsert", FALSE, id)
    /\ Raise(p, "ClientError")
    /\ UNCHANGED <<storeVars>>

\* lines 136-154: update_item succeeded
Recorded(p, id) ==
    /\ table' = UpdateItem(table, TableName, id, PendingOcr, job_id[p])
    /\ tableSrc' = NoteSrc(tableSrc, <<TableName, id>>, Url(p))
    /\ recordings' = Append(recordings, [link |-> Url(p), id |-> id, job |-> job_id[p]])
    /\ Called(p, "upsert", TRUE, id)
    /\ Advance(p, "Recorded")
    /\ UNCHANGED <<blob, blobSrc, jobs>>

\* lines 132-159: the id is derived, then the item updated
Record(p) ==
    /\ pc[p] = "JobSubmitted"
    /\ LET r == get_unique_id_from_url(Url(p))
       IN  IF r.ok
           THEN Recorded(p, r.id) \/ RecordFailed(p, r.id)
           ELSE Raise(p, r.raised) /\ UNCHANGED <<calls, storeVars>>
    /\ UNCHANGED <<libcPadsYear, inbox, delivered, msg, pdf_data, filename, job_id, handlerVars, wcalls>>

NextRecord == \E p \in Procs : Start(p) \/ Fetch(p) \/ Archive(p) \/ Submit(p) \/ Record(p)

Spec == Init /\ [][NextRecord]_vars

\* the stages the external call of a stage leads to when it returns: the next
\* one on success, Failed on error (the try blocks at lines 90-105, 95-105,
\* 108-129, 132-159)
NextStages(stage) ==
    CASE stage = "Received" -> {"Fetched", "Failed"}
      [] stage = "Fetched" -> {"Archived", "Failed"}
      [] stage = "Archived" -> {"JobSubmitted", "Failed"}
      [] stage = "JobSubmitted" -> {"Recorded", "Failed"}
      [] OTHER -> {}

\* the step of Fetch, Archive, Submit or Record as the stage shows it
Proceed(p) == \E stage \in NextStages(pc[p]) : pc' = [pc EXCEPT ![p] = stage]

\* every external call returns: an invocation that stays at a stage takes the
\* step of that stage. Deliveries (Start) are left to the queue.
Returns(p) == WF_pc(Proceed(p))

SpecLive == Init /\ [][NextRecord]_vars /\ \A p \in Procs : Returns(p)

\* process_record on one message, once, for each link of the URL family
InitUrl ==
    /\ libcPadsYear = FALSE
    /\ inbox \in {{Linked(u)} : u \in UrlFamily} \cup {{m} : m \in Messages \cup EdgeMessages}
    /\ delivered = MaxDeliveries - 1
    /\ InitProcs
    /\ InitStores
    /\ InitRest

SpecUrl == InitUrl /\ [][NextRecord]_vars

\* ------------------------------------------------------------------------
\* get_unique_id_from_url over a family of filenames
\* ------------------------------------------------------------------------

\* the filenames have up to MaxLead segments before their last one
MaxLead == 3

\* CRLA1 and 2345, the leading segments of the documented example
LeadSegments == {<<"C", "R", "L", "A", "1">>, <<"2", "3", "4", "5">>}

RECURSIVE LeadsOf(_)
LeadsOf(n) ==
    IF n = 0 THEN {<<>>}
    ELSE LeadsOf(n - 1)
         \cup {Append(l, g) : l \in {x \in LeadsOf(n - 1) : Len(x) = n - 1},
                              g \in LeadSegments}

Leads == LeadsOf(MaxLead)

\* date tokens written DD-Mon-YYYY that name a calendar date, each paired with
\* that date written YYYY-MM-DD
StatedDates ==
    {<<<<"0", "7", "-", "J", "a", "n", "-", "2", "0", "2", "3">>, <<"2", "0", "2", "3", "-", "0", "1", "-", "0", "7">>>>,
     <<<<"2", "9", "-", "F", "e", "b", "-", "2", "0", "2", "4">>, <<"2", "0", "2", "4", "-", "0", "2", "-", "2", "9">>>>,
     <<<<"3", "1", "-", "D", "e", "c", "-", "1", "9", "9", "9">>, <<"1", "9", "9", "9", "-", "1", "2", "-", "3", "1">>>>,
     <<<<"0", "1", "-", "J", "a", "n", "-", "0", "9", "9", "9">>, <<"0", "9", "9", "9", "-", "0", "1", "-", "0", "1">>>>}

\* tokens strptime also reads with "%d-%b-%Y": a one-digit day, another case
LooseDates ==
    {<<"7", "-", "J", "a", "n", "-", "2", "0", "2", "3">>,
     <<"0", "7", "-", "J", "A", "N", "-", "2", "0", "2", "3">>}

\* tokens that are no date: a day the month lacks, year 0, no month name, a
\* two-digit year, another order, nothing
NoDates ==
    {<<"2", "9", "-", "F", "e", "b", "-", "2", "0", "2", "3">>,
     <<"3", "1", "-", "A", "p", "r", "-", "2", "0", "2", "3">>,
     <<"0", "1", "-", "J", "a", "n", "-", "0", "0", "0", "0">>,
     <<"0", "7", "-", "J", "x", "n", "-", "2", "0", "2", "3">>,
     <<"0", "7", "-", "J", "a", "n", "-", "2", "3">>,
     <<"2", "0", "2", "3", "-", "0", "1", "-", "0", "7">>,
     <<>>}

DateTokens == {d[1] : d \in StatedDates} \cup LooseDates \cup NoDates

\* what follows the date token: .pdf, four other characters, nothing
Extensions == {DotPdf, <<".", "P", "D", "F">>, <<>>}

\* the segments joined by underscores
RECURSIVE JoinSegments(_)
JoinSegments(segs) ==
    IF Len(segs) = 0 THEN <<>>
    ELSE IF Len(segs) = 1 THEN segs[1]
    ELSE segs[1] \o <<"_">> \o JoinSegments(Tail(segs))

FilenameOf(lead, date, ext) == JoinSegments(Append(lead, date \o ext))

\* the link of a document of that name
LinkOf(name) == UrlBase \o <<"/">> \o name

IdFamily == {FilenameOf(l, d, e) : l \in Leads, d \in DateTokens, e \in Extensions}

\* process_record on one message, once, for each filename of the family, on
\* either platform, the record store being empty
InitId ==
    /\ libcPadsYear \in BOOLEAN
    /\ inbox \in {{Linked(LinkOf(f))} : f \in IdFamily}
    /\ delivered = MaxDeliveries - 1
    /\ InitProcs
    /\ InitStores
    /\ table = <<>>
    /\ InitRest

SpecId == InitId /\ [][NextRecord]_vars

\* deliveries of two documents whose filenames differ: CR_100_... and CR1_00_...
InitPair ==
    /\ libcPadsYear = FALSE
    /\ inbox = {Linked(UrlGood), Linked(UrlTwin)}
    /\ delivered = 0
    /\ InitProcs
    /\ InitStores
    /\ InitRest

SpecPair == InitPair /\ [][NextRecord]_vars

\* ------------------------------------------------------------------------
\* lambda_handler (lines 47-67)
\* ------------------------------------------------------------------------

\* the events the hosting runtime may pass: up to MaxRecords records
MaxRecords == 3

RECURSIVE EventsOf(_)
EventsOf(n) ==
    IF n = 0 THEN {<<>>}
    ELSE EventsOf(n - 1)
         \cup {Append(e, m) : e \in {x \in EventsOf(n - 1) : Len(x) = n - 1},
                              m \in Messages \cup EdgeMessages}

Events == EventsOf(MaxRecords)

\* line 62: the handler raises before it reads the event; lines 63-67 never run
lambda_handler(event) ==
    /\ hpc = "Idle"
    /\ hevent' = event
    /\ hpc' = "Raised"
    /\ UNCHANGED <<hcalls, libcPadsYear, inbox, delivered, procVars, storeVars, wcalls>>

NextHandler == \E event \in Events : lambda_handler(event)

SpecHandler == Init /\ [][NextHandler]_vars

\* ------------------------------------------------------------------------
\* The client wrappers: http_client, pdf_downloader, S3Client, DynamoDBClient
\* ------------------------------------------------------------------------

\* the resources the callers of the wrappers name
WrapperBucket == "scratch-bucket"

WrapperTable == "scratch-table"

WrapperKey == <<"w">>

WrapperItems == {[uniqueId |-> WrapperKey, note |-> n] : n \in {"a", "b"}}

\* history: a wrapper call, whether its external call failed, and what the
\* caller got: outcome is "returned" (with value) or "raised" (with the exception)
WLog(fn, failed, outcome, value) ==
    wcalls' = Append(wcalls, [fn |-> fn, failed |-> failed, outcome |-> outcome,
                              value |-> value])

\* http_client.py lines 20-37
http_get ==
    /\ Len(wcalls) < MaxWrapperCalls
    /\ \E failed \in BOOLEAN :
        WLog("get", failed, "returned", IF failed THEN None ELSE "response")
    /\ UNCHANGED <<libcPadsYear, inbox, delivered, procVars, storeVars, handlerVars>>

\* http_client.py lines 40-57
http_post ==
    /\ Len(wcalls) < MaxWrapperCalls
    /\ \E failed \in BOOLEAN :
        WLog("post", failed, "returned", IF failed THEN None ELSE "response")
    /\ UNCHANGED <<libcPadsYear, inbox, delivered, procVars, storeVars, handlerVars>>

\* pdf_downloader.py lines 12-26: get(url).content
download_pdf ==
    /\ Len(wcalls) < MaxWrapperCalls
    /\ \/ \E c \in Contents : WLog("download_pdf", FALSE, "returned", c)
       \/ WLog("download_pdf", TRUE, "raised", "AttributeError")
    /\ UNCHANGED <<libcPadsYear, inbox, delivered, procVars, storeVars, handlerVars>>

\* s3_client.py lines 49-72
upload_pdf_data ==
    /\ Len(wcalls) < MaxWrapperCalls
    /\ \/ \E data \in Contents :
            /\ blob' = PutObject(blob, WrapperBucket, WrapperKey, data, "application/pdf")
            /\ WLog("upload_pdf_data", FALSE, "returned", "True")
       \/ /\ WLog("upload_pdf_data", TRUE, "returned", "False")
          /\ UNCHANGED blob
    /\ UNCHANGED <<libcPadsYear, inbox, delivered, procVars, blobSrc, table, tableSrc, recordings, jobs, handlerVars>>

\* s3_client.py lines 26-47: a ClientError (such as a missing object) is not caught
download_file ==
    /\ Len(wcalls) < MaxWrapperCalls
    /\ IF <<WrapperBucket, WrapperKey>> \in DOMAIN blob
       THEN \/ WLog("download_file", FALSE, "returned", "True")
            \/ WLog("download_file", TRUE, "returned", "False")
       ELSE WLog("download_file", TRUE, "raised", "ClientError")
    /\ UNCHANGED <<libcPadsYear, inbox, delivered, procVars, storeVars, handlerVars>>

\* table.put_item(Item=item): the item replaces the one under its key
PutItem(store, tbl, item) ==
    [k \in DOMAIN store \cup {<<tbl, item.uniqueId>>} |->
        IF k = <<tbl, item.uniqueId>> THEN item ELSE store[k]]

\* dynamodb_client.py lines 26-42
put_item ==
    /\ Len(wcalls) < MaxWrapperCalls
    /\ \/ \E item \in WrapperItems :
            /\ table' = PutItem(table, WrapperTable, item)
            /\ WLog("put_item", FALSE, "returned", "response")
       \/ /\ WLog("put_item", TRUE, "returned", None)
          /\ UNCHANGED table
    /\ UNCHANGED <<libcPadsYear, inbox, delivered, procVars, blob, blobSrc, tableSrc, recordings, jobs, handlerVars>>

\* dynamodb_client.py lines 44-60
get_item ==
    /\ Len(wcalls) < MaxWrapperCalls
    /\ \/ WLog("get_item", FALSE, "returned",
               IF <<WrapperTable, WrapperKey>> \in DOMAIN table THEN "Item" ELSE None)
       \/ WLog("get_item", TRUE, "returned", None)
    /\ UNCHANGED <<libcPadsYear, inbox, delivered, procVars, storeVars, handlerVars>>

NextClients ==
    \/ http_get
    \/ http_post
    \/ download_pdf
    \/ upload_pdf_data
    \/ download_file
    \/ put_item
    \/ get_item

\* one delivery, interleaved with calls of the wrappers
InitClients ==
    /\ libcPadsYear = FALSE
    /\ inbox = Messages
    /\ delivered = MaxDeliveries - 1
    /\ InitProcs
    /\ InitStores
    /\ InitRest

SpecClients == InitClients /\ [][NextRecord \/ NextClients]_vars

\* ------------------------------------------------------------------------
\* Properties
\* ------------------------------------------------------------------------

\* the chain of external calls of one pass
ChainOrder == <<"fetch", "put", "submit", "upsert">>

\* C1: in every pass the external calls are a prefix of fetch, put, submit,
\* upsert, each made at most once, for the link of the message of the pass, and
\* a call is made only when every call before it in the pass succeeded.
C1_StagesInOrder ==
    \A p \in Procs :
        /\ Len(calls[p]) <= Len(ChainOrder)
        /\ \A i \in 1..Len(calls[p]) : calls[p][i].op = ChainOrder[i]
        /\ \A i \in 1..(Len(calls[p]) - 1) : calls[p][i].ok
        /\ calls[p] # <<>> => calls[p][1].arg = msg[p].link

\* C1 witness: a pass that made all four calls and ended Recorded
C1_Witness ==
    \E p \in Procs :
        /\ pc[p] = "Recorded"
        /\ Len(calls[p]) = 4
        /\ \A i \in 1..4 : calls[p][i].ok

\* the objects deliveries of a link have written
ObjectsOf(url) == {k \in DOMAIN blob : url \in blobSrc[k]}

\* the items deliveries of a link have written
ItemsOf(url) == {k \in DOMAIN table : url \in tableSrc[k]}

\* C2: whatever deliveries of a message have run, and however each ended, the
\* blob store holds at most one object written for its link and the record
\* store at most one item written for it.
C2_OneObjectOneRecord ==
    \A m \in inbox :
        /\ Cardinality(ObjectsOf(m.link)) <= 1
        /\ Cardinality(ItemsOf(m.link)) <= 1

\* C2 witness: two deliveries of the same message, both Recorded, and one object
\* and one item for its link
C2_Witness ==
    \E p, q \in Procs :
        /\ p # q
        /\ msg[p] = msg[q]
        /\ pc[p] = "Recorded"
        /\ pc[q] = "Recorded"
        /\ Cardinality(ObjectsOf(msg[p].link)) = 1
        /\ Cardinality(ItemsOf(msg[p].link)) = 1

\* C3: a pass whose fetch failed made no other call and ended with the error
\* leaving process_record.
C3_FetchFailureStops ==
    \A p \in Procs :
        (calls[p] # <<>> /\ calls[p][1].op = "fetch" /\ ~calls[p][1].ok)
            => /\ Len(calls[p]) = 1
               /\ pc[p] = "Failed"
               /\ err[p] # None

\* C3 witness: a pass whose fetch failed
C3_Witness ==
    \E p \in Procs :
        /\ calls[p] # <<>>
        /\ ~calls[p][1].ok
        /\ pc[p] = "Failed"
        /\ blob = <<>>
        /\ jobs = <<>>

\* C4: a pass whose job response carried no job_id makes no upsert, and no item
\* with a null jobId is ever in the record store.
C4_NoRecordWithoutJobId ==
    /\ \A p \in Procs :
        job_id[p] = None => \A i \in 1..Len(calls[p]) : calls[p][i].op # "upsert"
    /\ \A k \in DOMAIN table : table[k].jobId # None

\* C5: lambda_handler given only records without a link returns normally and
\* makes no external call.
C5_MissingLinkSkipped ==
    (/\ hpc # "Idle"
     /\ hevent # <<>>
     /\ \A i \in 1..Len(hevent) :
            hevent[i].json /\ (~hevent[i].haslink \/ hevent[i].link = <<>>))
        => hpc = "Returned" /\ hcalls = <<>>

\* judgements/CR_100_07-Jan-2023.pdf
ExampleKey ==
    <<"j", "u", "d", "g", "e", "m", "e", "n", "t", "s", "/", "C", "R", "_", "1", "0",
      "0", "_", "0", "7", "-", "J", "a", "n", "-", "2", "0", "2", "3", ".", "p", "d", "f">>

\* CR100_2023-01-07
ExampleId ==
    <<"C", "R", "1", "0", "0", "_", "2", "0", "2", "3", "-", "0", "1", "-", "0", "7">>

\* the calls of one kind lambda_handler made
HandlerCalls(op) == {i \in 1..Len(hcalls) : hcalls[i].op = op}

\* C6: lambda_handler given the single well-formed record of the example, with
\* every external call succeeding, makes exactly one blob write under
\* judgements/<filename>, one job submission whose paths name that key, and
\* one upsert under the derived record id.
C6_EndToEnd ==
    (/\ hpc # "Idle"
     /\ hevent = <<Linked(UrlGood)>>
     /\ \A i \in 1..Len(hcalls) : hcalls[i].ok)
        => /\ Cardinality(HandlerCalls("put")) = 1
           /\ \A i \in HandlerCalls("put") : hcalls[i].arg = ExampleKey
           /\ Cardinality(HandlerCalls("submit")) = 1
           /\ \A i \in HandlerCalls("submit") :
                /\ hcalls[i].arg.input_file_path = <<"s3://", "judgement-pdfs", "/">> \o ExampleKey
                /\ hcalls[i].arg.output_file_path = <<"s3://", "judgement-jsons", "/">> \o ExampleKey
           /\ Cardinality(HandlerCalls("upsert")) = 1
           /\ \A i \in HandlerCalls("upsert") : hcalls[i].arg = ExampleId

\* the wrappers around the calls C7 names: HTTP GET, HTTP POST, blob write, record write
WriteWrappers == {"get", "post", "download_pdf", "upload_pdf_data", "put_item"}

\* within process_record a failed call is the last of its pass and the pass ends
\* with the error raised; a pass that returns without being Recorded is a skip
\* of a record without link
RecordFailuresSurface ==
    \A p \in Procs :
        /\ \A i \in 1..Len(calls[p]) :
            ~calls[p][i].ok => i = Len(calls[p]) /\ pc[p] = "Failed" /\ err[p] # None
        /\ (pc[p] \in Terminal \ {"Failed", "Recorded"})
            => /\ pc[p] = "Skipped"
               /\ ~msg[p].haslink \/ msg[p].link = <<>>
               /\ calls[p] = <<>>

\* C7 as stated: no component turns the failure of its external call into a
\* normal return value.
C7_EveryFailureSurfaces ==
    /\ RecordFailuresSurface
    /\ \A i \in 1..Len(wcalls) :
        (wcalls[i].fn \in WriteWrappers /\ wcalls[i].failed) => wcalls[i].outcome = "raised"

\* C7 amended: process_record surfaces every failure of its external calls, and
\* its only return without error short of Recorded is the missing-link skip;
\* the wrappers http_client.get/post, S3Client.upload_pdf_data and
\* DynamoDBClient.put_item instead give None or False back on failure.
C7_RecordSurfacesWrappersSwallow ==
    /\ RecordFailuresSurface
    /\ \A i \in 1..Len(wcalls) :
        (wcalls[i].fn \in {"get", "post", "upload_pdf_data", "put_item"} /\ wcalls[i].failed)
            => wcalls[i].outcome = "returned" /\ wcalls[i].value \in {None, "False"}

\* C7 witness: a pass ended by a failed update_item, and a wrapper whose
\* external call failed
C7_Witness ==
    /\ \E p \in Procs : Len(calls[p]) = 4 /\ ~calls[p][4].ok /\ pc[p] = "Failed"
    /\ \E i \in 1..Len(wcalls) : wcalls[i].fn = "put_item" /\ wcalls[i].failed

\* the object a pass stored
StoredKey(p) == <<INPUT_BUCKET_NAME, ObjectKey(filename[p])>>

\* C8: the step in which a pass fails at the job submission or at the record
\* stage leaves both stores as they are, the stored object included, and
\* withdraws no job.
C8_NoRollback ==
    [][\A p \in Procs :
        (pc[p] \in {"Archived", "JobSubmitted"} /\ pc'[p] = "Failed")
            => /\ blob' = blob
               /\ StoredKey(p) \in DOMAIN blob'
               /\ table' = table
               /\ Len(jobs') >= Len(jobs)
               /\ SubSeq(jobs', 1, Len(jobs)) = jobs
               /\ pc[p] = "JobSubmitted" => jobs' = jobs]_vars

\* C8 witness: a pass that failed after its object was stored, the object in place
C8_Witness ==
    \E p \in Procs :
        /\ pc[p] = "Failed"
        /\ Len(calls[p]) = 3
        /\ ~calls[p][3].ok
        /\ StoredKey(p) \in DOMAIN blob
        /\ blob[StoredKey(p)].Body = pdf_data[p]

\* C9: the step that records sets status and jobId of the item under the
\* record id, creating it if absent, keeps every other attribute of the item
\* and every other item, and applying the same update again changes nothing.
C9_UpsertMerges ==
    [][\A p \in Procs :
        (pc[p] = "JobSubmitted" /\ pc'[p] = "Recorded")
            => LET id == calls'[p][4].arg
                   k == <<TableName, id>>
               IN  /\ DOMAIN table' = DOMAIN table \cup {k}
                   /\ table'[k].uniqueId = id
                   /\ table'[k].status = PendingOcr
                   /\ table'[k].jobId = job_id[p]
                   /\ DOMAIN table'[k] =
                        (IF k \in DOMAIN table THEN DOMAIN table[k] ELSE {"uniqueId"})
                            \cup {"status", "jobId"}
                   /\ k \in DOMAIN table
                        => \A f \in DOMAIN table[k] \ {"status", "jobId"} :
                                table'[k][f] = table[k][f]
                   /\ \A k2 \in DOMAIN table \ {k} : table'[k2] = table[k2]
                   /\ UpdateItem(table', TableName, id, PendingOcr, job_id[p]) = table']_vars

\* C9 witness: an item written by another system was merged into
C9_Witness ==
    \E k \in DOMAIN table :
        /\ "court" \in DOMAIN table[k]
        /\ table[k].status = PendingOcr
        /\ tableSrc[k] # {}

\* the last '/'-delimited segment of the path of a link
LastSegment(url) == Split(UrlPath(url), "/")[Len(Split(UrlPath(url), "/"))]

\* the key C10 states for a link
StatedKey(url) ==
    KeyPrefix \o (IF EndsWith(LastSegment(url), DotPdf)
                  THEN LastSegment(url) ELSE LastSegment(url) \o DotPdf)

\* C10: every blob write of a pass is made under 'judgements/' followed by the
\* last path segment of the link, with '.pdf' appended unless the segment ends
\* in it, and a successful write leaves the object under that key.
C10_ObjectKey ==
    \A p \in Procs :
        \A i \in 1..Len(calls[p]) :
            calls[p][i].op = "put"
                => /\ calls[p][i].arg = StatedKey(Url(p))
                   /\ calls[p][i].ok => DOMAIN blob = {<<INPUT_BUCKET_NAME, StatedKey(Url(p))>>}

\* C10 witness: an object stored for a link with a query string whose last
\* path segment lacks '.pdf'
C10_Witness ==
    \E p \in Procs :
        /\ pc[p] = "Archived"
        /\ Url(p) = UrlBase \o <<"/", "a", "?">>
        /\ DOMAIN blob = {<<INPUT_BUCKET_NAME, KeyPrefix \o <<"a", ".", "p", "d", "f">> >>}

\* the step in which the pass of p derives its record id (lines 132-134)
DerivationStep(p) == pc[p] = "JobSubmitted" /\ pc'[p] # "JobSubmitted"

\* C11: for every filename seg0_seg1[_...]_DD-Mon-YYYY.pdf the derivation gives
\* seg0 followed directly by seg1, an underscore and the date as YYYY-MM-DD,
\* whatever the segments in between: the pass goes on to update the item of
\* that id.
C11_DerivesRecordId ==
    [][\A p \in Procs : \A lead \in Leads : \A d \in StatedDates :
          (/\ DerivationStep(p)
           /\ Len(lead) >= 2
           /\ Url(p) = LinkOf(FilenameOf(lead, d[1], DotPdf)))
          => /\ Len(calls'[p]) = 4
             /\ calls'[p][4].op = "upsert"
             /\ calls'[p][4].arg = lead[1] \o lead[2] \o <<"_">> \o d[2]]_vars

\* the exceptions the derivation raises: split[1] of a one-element list, strptime
DerivationErrors == {"IndexError", "ValueError"}

\* the date tokens strptime reads
ReadableDates == {d[1] : d \in StatedDates} \cup LooseDates

\* the links of the family whose filename has a single segment, or whose last
\* segment without its last four characters is not one of the readable dates
MalformedLinks ==
    {LinkOf(FilenameOf(c[1], c[2], c[3])) :
        c \in {x \in Leads \X DateTokens \X Extensions :
                  Len(x[1]) = 0 \/ Len(x[3]) # 4 \/ x[2] \notin ReadableDates}}

\* C12: when the filename has fewer than two underscore-delimited segments, or
\* its last segment without its last four characters is no date, the
\* derivation raises: the pass fails with that error, no item is updated and
\* no identifier is made up.
C12_MalformedFilenameFails ==
    [][\A p \in Procs :
          (DerivationStep(p) /\ Url(p) \in MalformedLinks)
          => /\ pc'[p] = "Failed"
             /\ err'[p] \in DerivationErrors
             /\ calls' = calls
             /\ table' = table
             /\ recordings' = recordings]_vars

\* CRLA1_2345_29-Feb-2023.pdf: after fetch, put and submit succeeded the pass
\* failed on the date, and the record store is still empty
C12_Witness ==
    \E p \in Procs :
        /\ Url(p) = LinkOf(<<"C", "R", "L", "A", "1", "_", "2", "3", "4", "5", "_", "2", "9", "-", "F", "e", "b", "-", "2", "0", "2", "3", ".", "p", "d", "f">>)
        /\ pc[p] = "Failed"
        /\ err[p] = "ValueError"
        /\ Len(calls[p]) = 3
        /\ calls[p][3].ok
        /\ table = <<>>

\* C13: the derivation of a pass gives what get_unique_id_from_url gives for
\* the filename under which the pass archived the object (the last component
\* of the object key, with any appended .pdf): the same identifier goes to the
\* update, or both fail alike, for every link.
C13_IdFromArchivedFilename ==
    [][\A p \in Procs : DerivationStep(p) =>
          LET r == get_unique_id_from_url(filename[p])
          IN  IF r.ok
              THEN /\ Len(calls'[p]) = 4
                   /\ calls'[p][4].op = "upsert"
                   /\ calls'[p][4].arg = r.id
              ELSE /\ pc'[p] = "Failed"
                   /\ err'[p] \in DerivationErrors
                   /\ calls' = calls]_vars

\* C14: two documents archived under different filenames that both reached
\* Recorded were recorded under different identifiers.
C14_OneRecordPerDocument ==
    \A i, j \in 1..Len(recordings) :
        Filename(recordings[i].link) # Filename(recordings[j].link)
        => recordings[i].id # recordings[j].id

\* record i of the event carries a link to process
HasLink(i) == hevent[i].json /\ hevent[i].haslink /\ hevent[i].link # <<>>

\* lambda_handler fetched the link of record i
Attempted(i) ==
    \E k \in 1..Len(hcalls) : hcalls[k].op = "fetch" /\ hcalls[k].arg = hevent[i].link

\* C15: when lambda_handler raises, it does so for a record i it was
\* processing (one whose body is no JSON, or whose link it had fetched): every
\* record with a link before i has been processed, and nothing was fetched
\* for a record after i.
C15_InOrderUntilFailure ==
    hpc = "Raised"
    => \E i \in 1..Len(hevent) :
          /\ ~hevent[i].json \/ (HasLink(i) /\ Attempted(i))
          /\ \A j \in 1..(i - 1) : HasLink(j) => Attempted(j)
          /\ \A k \in 1..Len(hcalls) :
                hcalls[k].op = "fetch" => \E j \in 1..i : hevent[j].link = hcalls[k].arg

\* the identifiers the processing service gave its jobs
JobIds == {jobs[i].id : i \in 1..Len(jobs)}

\* C16: when two invocations have processed the same message, in whatever
\* interleaving, and both ended Recorded, the blob store holds one object for
\* the document, the record store one item, and the jobId of that item is a job
\* identifier one of the two submissions returned.
C16_ConcurrentSameDocument ==
    \A p, q \in Procs :
        (p # q /\ msg[p] = msg[q] /\ pc[p] = "Recorded" /\ pc[q] = "Recorded")
        => /\ Cardinality(ObjectsOf(Url(p))) = 1
           /\ Cardinality(ItemsOf(Url(p))) = 1
           /\ \A k \in ItemsOf(Url(p)) :
                table[k].jobId \in {job_id[p], job_id[q]} \cap JobIds

\* a pass is under way
InFlight(p) == pc[p] \notin Terminal \cup {"Idle"}

\* C17: every pass under way is at a stage whose call is outstanding and ends
\* in Recorded, Skipped or Failed, Skipped only for a message without link;
\* and once a pass has ended, its stage, its error and its calls stay as they
\* are until the invocation is given a new delivery.
C17_PassTerminates ==
    /\ \A p \in Procs : InFlight(p) ~> (pc[p] \in Terminal)
    /\ [](\A p \in Procs : InFlight(p) => NextStages(pc[p]) # {})
    /\ [](\A p \in Procs :
            pc[p] = "Skipped" => (~msg[p].haslink \/ msg[p].link = <<>>) /\ calls[p] = <<>>)
    /\ [][\A p \in Procs : pc[p] \in Terminal =>
              \/ pc'[p] = pc[p] /\ calls'[p] = calls[p] /\ err'[p] = err[p]
              \/ delivered' = delivered + 1 /\ calls'[p] = <<>>]_vars

\* one pass ended Recorded after its four calls, another ended Skipped
C17_Witness ==
    \E p, q \in Procs :
        /\ pc[p] = "Recorded"
        /\ Len(calls[p]) = 4
        /\ pc[q] = "Skipped"

\* C18: a pass that failed because its filename yields no record id has made,
\* before that, its fetch, one blob write and one job submission, all
\* successful: the object is stored, the job is with the processing service,
\* and no item was updated or written for the link.
C18_DerivationAfterSubmission ==
    \A p \in Procs :
        (pc[p] = "Failed" /\ err[p] \in DerivationErrors)
        => /\ Len(calls[p]) = 3
           /\ \A i \in 1..3 : calls[p][i].op = ChainOrder[i] /\ calls[p][i].ok
           /\ <<INPUT_BUCKET_NAME, calls[p][2].arg>> \in DOMAIN blob
           /\ \E i \in 1..Len(jobs) : jobs[i].payload = calls[p][3].arg
           /\ ItemsOf(Url(p)) = {}

\* onlyonepart.pdf: fetched, stored and submitted, then IndexError
C18_Witness ==
    \E p \in Procs :
        /\ Url(p) = UrlOnePart
        /\ pc[p] = "Failed"
        /\ err[p] = "IndexError"
        /\ Len(calls[p]) = 3
        /\ Len(jobs) >= 1
        /\ table = <<>>

\* every delivery so far was of the message m and has ended Recorded
AllRecorded(m) ==
    /\ delivered >= 1
    /\ Len(recordings) = delivered
    /\ \A i \in 1..Len(recordings) : recordings[i].link = m.link

\* C19: after k deliveries of the same message that each ended Recorded, the
\* processing service has k jobs, all for the same object, and the record
\* store one item for the document, whose jobId is the job identifier returned
\* to the delivery that recorded last.
C19_RedeliveryResubmits ==
    \A m \in inbox :
        AllRecorded(m)
        => /\ Len(jobs) = delivered
           /\ \A i \in 1..Len(jobs) : jobs[i].payload = jobs[1].payload
           /\ Cardinality(ItemsOf(m.link)) = 1
           /\ \A k \in ItemsOf(m.link) :
                /\ table[k].jobId = recordings[Len(recordings)].job
                /\ table[k].jobId \in JobIds

\* C20: a pass for a message whose body is no JSON has failed with the error of
\* the decoder and has made no external call: no fetch, no blob write, no job
\* submission, no upsert; it is not a skip.
C20_BadJsonFails ==
    \A p \in Procs :
        (pc[p] # "Idle" /\ ~msg[p].json)
        => /\ pc[p] = "Failed"
           /\ err[p] = "JSONDecodeError"
           /\ calls[p] = <<>>

\* a delivery of the body that is no JSON has failed, and nothing was stored or
\* submitted
C20_Witness ==
    \E p \in Procs :
        /\ msg[p] = MsgNotJson
        /\ pc[p] = "Failed"
        /\ calls[p] = <<>>
        /\ blob = <<>>
        /\ jobs = <<>>
====
